---- MODULE Spec2Model ----
(***************************************************************************)
(* A model of src/main.py: the two request handlers process_document       *)
(* (template export, CSV) and export_to_excel (direct export, spreadsheet) *)
(* and the helper get_image_from_upload they share.                        *)
(*                                                                         *)
(* One request is followed from its arrival to its response.  Requests     *)
(* share no mutable state, so one request at a time loses nothing.  The    *)
(* upload, the answers of the generation service and the outcome of the    *)
(* decoders are the inputs; they are drawn from the finite sets below.     *)
(*                                                                         *)
(* Text is a TLA+ string; the Python string methods the handlers use       *)
(* (strip, split, replace, join) are written out character by character.   *)
(* A Python exception is a record [type, status, msg]; an operation that   *)
(* may raise returns [ok |-> TRUE, val |-> v] or [ok |-> FALSE, exc |-> e].*)
(***************************************************************************)
EXTENDS Integers, Sequences, FiniteSets, TLC

VARIABLES pc, endpoint, file, image_to_process, header_text,
          discovered_headers, json_text, extracted_data, all_rows,
          response, log

vars == <<pc, endpoint, file, image_to_process, header_text,
          discovered_headers, json_text, extracted_data, all_rows,
          response, log>>

(***************************************************************************)
(* Bounds of the model.                                                    *)
(***************************************************************************)
\* The longest header line the generation service answers with: past the
\* ten expense columns of the template, so that truncation happens.
MaxHeaders == 11
\* The most members (rows) in one extraction answer.
MaxMembers == 2

(***************************************************************************)
(* Program constants.                                                      *)
(***************************************************************************)
\* The template has ten expense code/amount column pairs (lines 143, 148, 149).
MaxExpenseColumns == 10

(***************************************************************************)
(* Python's str methods.                                                   *)
(***************************************************************************)
Char(s, i) == SubSeq(s, i, i)

IsSpace(c) == c = " "

RECURSIVE LStrip(_)
LStrip(s) ==
    IF Len(s) > 0 /\ IsSpace(Char(s, 1)) THEN LStrip(SubSeq(s, 2, Len(s))) ELSE s

RECURSIVE RStrip(_)
RStrip(s) ==
    IF Len(s) > 0 /\ IsSpace(Char(s, Len(s)))
    THEN RStrip(SubSeq(s, 1, Len(s) - 1)) ELSE s

\* str.strip()
Strip(s) == RStrip(LStrip(s))

RECURSIVE LStripChar(_, _)
LStripChar(s, c) ==
    IF Len(s) > 0 /\ Char(s, 1) = c THEN LStripChar(SubSeq(s, 2, Len(s)), c) ELSE s

RECURSIVE RStripChar(_, _)
RStripChar(s, c) ==
    IF Len(s) > 0 /\ Char(s, Len(s)) = c
    THEN RStripChar(SubSeq(s, 1, Len(s) - 1), c) ELSE s

\* str.strip(c) for a one-character c
StripChar(s, c) == RStripChar(LStripChar(s, c), c)

\* The least index of s at or after start where pat begins, or 0.
Find(s, pat, start) ==
    LET hits == {i \in start..(Len(s) - Len(pat) + 1) : SubSeq(s, i, i + Len(pat) - 1) = pat}
    IN  IF hits = {} THEN 0 ELSE CHOOSE i \in hits : \A j \in hits : i <= j

RECURSIVE SplitFrom(_, _, _)
SplitFrom(s, sep, start) ==
    LET i == Find(s, sep, start)
    IN  IF i = 0 THEN <<SubSeq(s, start, Len(s))>>
        ELSE <<SubSeq(s, start, i - 1)>> \o SplitFrom(s, sep, i + 1)

\* str.split(sep) for a one-character sep: "" splits into [""]
Split(s, sep) == SplitFrom(s, sep, 1)

RECURSIVE Replace(_, _)
\* str.replace(pat, ""): every occurrence of pat, left to right, removed
Replace(s, pat) ==
    LET i == Find(s, pat, 1)
    IN  IF i = 0 THEN s
        ELSE SubSeq(s, 1, i - 1) \o Replace(SubSeq(s, i + Len(pat), Len(s)), pat)

RECURSIVE Join(_, _)
\* sep.join(parts)
Join(parts, sep) ==
    IF parts = <<>> THEN ""
    ELSE IF Len(parts) = 1 THEN parts[1]
         ELSE parts[1] \o sep \o Join(Tail(parts), sep)

(***************************************************************************)
(* Python values.  JSON values as json.loads returns them, and the cells   *)
(* of a flattened row: None, a str, a number, a list, a dict.              *)
(***************************************************************************)
PyNone == [k |-> "null"]
PyStr(s) == [k |-> "str", s |-> s]
PyNum(n) == [k |-> "num", n |-> n]
PyList(a) == [k |-> "arr", a |-> a]
PyDict(o) == [k |-> "obj", o |-> o]
\* extracted_data before json.loads has assigned it
Unset == [k |-> "unset"]
\* a text local (header_text, json_text) before its assignment
Unbound == "<unbound>"

EmptyDict == PyDict(<<>>)

IsDict(v) == v.k = "obj"

\* bool(v): None, "", 0, [] and {} are falsy
Truthy(v) ==
    CASE v.k = "null" -> FALSE
      [] v.k = "str" -> v.s # ""
      [] v.k = "num" -> v.n # 0
      [] v.k = "arr" -> v.a # <<>>
      [] v.k = "obj" -> DOMAIN v.o # {}
      [] OTHER -> FALSE

HasKey(d, key) == key \in DOMAIN d.o

\* dict.get(key, default)
Get(d, key, default) == IF HasKey(d, key) THEN d.o[key] ELSE default

\* format(v) inside an f-string
Format(v) ==
    CASE v.k = "null" -> "None"
      [] v.k = "str" -> v.s
      [] v.k = "num" -> ToString(v.n)
      [] v.k = "arr" -> "[...]"
      [] OTHER -> "{...}"

(***************************************************************************)
(* Exceptions and responses.                                               *)
(***************************************************************************)
Ok(v) == [ok |-> TRUE, val |-> v]
Raise(e) == [ok |-> FALSE, exc |-> e]

HTTPException(status, detail) == [type |-> "HTTPException", status |-> status, msg |-> detail]
PyError(type, msg) == [type |-> type, status |-> 0, msg |-> msg]

\* str(e): an HTTPException prints as "<status>: <detail>"
StrExc(e) ==
    IF e.type = "HTTPException" THEN ToString(e.status) \o ": " \o e.msg ELSE e.msg

NoStream == [media |-> "none", nrows |-> 0]
NoResponse == [status |-> 0, detail |-> "", stream |-> NoStream, escaped |-> FALSE]

\* What the transport answers for an exception that leaves the handler: an
\* HTTPException becomes its status and detail; anything else is the
\* server's bare 500.
ErrorResponse(e) ==
    IF e.type = "HTTPException"
    THEN [status |-> e.status, detail |-> e.msg, stream |-> NoStream, escaped |-> FALSE]
    ELSE [status |-> 500, detail |-> "Internal Server Error", stream |-> NoStream,
          escaped |-> TRUE]

StreamingResponse(media, nrows) ==
    [status |-> 200, detail |-> "", stream |-> [media |-> media, nrows |-> nrows],
     escaped |-> FALSE]

(***************************************************************************)
(* The upload and the decoders.                                            *)
(***************************************************************************)
AcceptedTypes == {"image/jpeg", "image/png", "application/pdf"}
ContentTypes == AcceptedTypes \cup {"text/plain"}

\* The uploaded bytes, by what the decoders make of them: a raster image, a
\* PDF with a first page, a PDF the decoder returns no page for, bytes no
\* decoder accepts.
Contents == {"raster", "pdf_page", "pdf_nopage", "malformed"}

Uploads == [content_type : ContentTypes, content : Contents]

\* pdf2image.convert_from_bytes(bytes, first_page=1, last_page=1)
ConvertFromBytes(bytes) ==
    CASE bytes = "pdf_page" -> Ok(<<"page1">>)
      [] bytes = "pdf_nopage" -> Ok(<<>>)
      [] OTHER -> Raise(PyError("PDFPageCountError", "Unable to get page count."))

\* PIL.Image.open(io.BytesIO(bytes))
ImageOpen(bytes) ==
    IF bytes = "raster" THEN Ok("image")
    ELSE Raise(PyError("UnidentifiedImageError", "cannot identify image file"))

\* The try body of lines 92-96.
PdfTryBody(bytes) ==
    LET images == ConvertFromBytes(bytes)
    IN  IF ~images.ok THEN images
        ELSE IF images.val = <<>>
             THEN Raise(HTTPException(400, "Could not extract an image from the PDF."))
             ELSE Ok(images.val[1])

\* try/except of lines 92-98: except Exception catches every exception of
\* the body, the HTTPException raised in it included.
PdfTryExcept(bytes) ==
    LET r == PdfTryBody(bytes)
    IN  IF r.ok THEN r
        ELSE Raise(HTTPException(500, "PDF processing failed: " \o StrExc(r.exc)))

\* The events get_image_from_upload leaves in the log for an upload.
AcquireEvents(f) ==
    IF f.content_type \notin AcceptedTypes THEN <<>>
    ELSE IF f.content_type = "application/pdf" THEN <<"read", "decode_pdf">>
         ELSE <<"read", "decode_image">>

\* Mutant of GetImage: the content type is not checked first; what is no
\* PDF is opened as an image.
GetImageNoTypeCheck(f) ==
    IF f.content_type = "application/pdf"
    THEN PdfTryExcept(f.content)
    ELSE ImageOpen(f.content)

\* get_image_from_upload, lines 85-100.
GetImage(f) ==
    IF f.content_type \notin AcceptedTypes
    THEN Raise(HTTPException(400, "Unsupported file type."))
    ELSE IF f.content_type = "application/pdf"
         THEN PdfTryExcept(f.content)
         ELSE ImageOpen(f.content)

(***************************************************************************)
(* The generation service.  An answer is a text, or the call raises.       *)
(***************************************************************************)
Text(t) == Ok(t)
ServiceFault == Raise(PyError("ServiceError", "generation failed"))

Alphabet == "ABCDEFGHIJKLMNOPQRSTUVWXYZ"
\* The i-th charge header of a generated header line.
Label(i) == Char(Alphabet, i)

\* "A,B,C,..." with n labels
HeaderLine(n) == Join([i \in 1..n |-> Label(i)], ",")

DiscoveryAnswers ==
    {Text(HeaderLine(n)) : n \in 0..MaxHeaders}
    \cup {Text(t) : t \in {" ", ",", " , ,", "Tax", " A , B ", "A,A,B",
                           "Property Tax, Water Charges ,,Sinking Fund"}}
    \cup {ServiceFault}

\* Line 112: [h.strip() for h in header_text.split(',') if h.strip()]
ParseHeaders(text) ==
    LET parts == Split(text, ",")
        stripped == [i \in 1..Len(parts) |-> Strip(parts[i])]
    IN  SelectSeq(stripped, LAMBDA h : h # "")

\* The try body of lines 109-114, given the service's answer.
DiscoveryTryBody(answer) ==
    IF ~answer.ok THEN answer
    ELSE LET headers == ParseHeaders(Strip(answer.val))
         IN  IF headers = <<>>
             THEN Raise(HTTPException(400,
                     "Could not identify any expense headers in the document."))
             ELSE Ok(headers)

\* try/except of lines 108-116.
DiscoveryTryExcept(answer) ==
    LET r == DiscoveryTryBody(answer)
    IN  IF r.ok THEN r
        ELSE Raise(HTTPException(500,
                "Failed to discover headers from the document: " \o StrExc(r.exc)))

(***************************************************************************)
(* JSON texts.  Dumps writes a value as JSON text; json.loads is its       *)
(* inverse on the texts of JsonValues and raises on every other text.      *)
(***************************************************************************)
RECURSIVE SetToSeq(_)
SetToSeq(S) ==
    IF S = {} THEN <<>>
    ELSE LET x == CHOOSE y \in S : TRUE IN <<x>> \o SetToSeq(S \ {x})

Quote(s) == "\"" \o s \o "\""

RECURSIVE Dumps(_)
Dumps(v) ==
    CASE v.k = "null" -> "null"
      [] v.k = "str" -> Quote(v.s)
      [] v.k = "num" -> ToString(v.n)
      [] v.k = "arr" -> "[" \o Join([i \in 1..Len(v.a) |-> Dumps(v.a[i])], ", ") \o "]"
      [] OTHER ->
           LET keys == SetToSeq(DOMAIN v.o)
           IN  "{" \o Join([i \in 1..Len(keys) |->
                               Quote(keys[i]) \o ": " \o Dumps(v.o[keys[i]])], ", ")
               \o "}"

\* A key the answer leaves out of an object.
Absent == [k |-> "absent"]

\* The dict of the <<key, value>> pairs whose value is not Absent.
MkDict(pairs) ==
    LET present == {i \in 1..Len(pairs) : pairs[i][2] # Absent}
    IN  PyDict([key \in {pairs[i][1] : i \in present} |->
                   pairs[CHOOSE i \in present : pairs[i][1] = key][2]])

Member(wing, unit, name, charges) ==
    MkDict(<<<<"Wing", wing>>, <<"Unit No", unit>>, <<"Member Name", name>>,
             <<"Charges", charges>>>>)

WingValues == {Absent, PyNone, PyStr(""), PyStr("B"), PyStr("-B")}
UnitValues == {Absent, PyNone, PyStr("205"), PyStr("1-")}
NameValues == {Absent, PyNone, PyStr("John")}
ChargesValues ==
    {Absent, PyNone, EmptyDict,
     PyDict("A" :> PyStr("100")),
     PyDict(("A" :> PyNone) @@ ("B" :> PyNum(7)) @@ ("K" :> PyNum(3)))}

\* The member of the end-to-end example.
JohnA1 == Member(PyStr("A"), PyStr("1"), PyStr("John"), PyDict("Tax" :> PyStr("100")))

Members ==
    {Member(w, u, PyStr("John"), PyDict("A" :> PyStr("100"))) :
        w \in WingValues, u \in UnitValues}
    \cup {Member(PyStr("B"), PyStr("205"), n, c) : n \in NameValues, c \in ChargesValues}
    \cup {JohnA1}

\* The members longer answers are made of.
FewMembers ==
    {JohnA1,
     Member(PyNone, PyStr("205"), PyNone,
            PyDict(("A" :> PyNone) @@ ("B" :> PyNum(7)) @@ ("K" :> PyNum(3)))),
     Member(PyStr("B"), Absent, PyStr("John"), PyNone)}

RECURSIVE SeqsOf(_, _)
\* the sequences of length n over S
SeqsOf(S, n) ==
    IF n = 0 THEN {<<>>}
    ELSE {Append(q, x) : q \in SeqsOf(S, n - 1), x \in S}

MemberArrays ==
    {PyList(<<>>)} \cup {PyList(<<m>>) : m \in Members}
    \cup UNION {{PyList(q) : q \in SeqsOf(FewMembers, n)} : n \in 2..MaxMembers}

\* Answers that are JSON but no array of objects.
OtherJson ==
    {EmptyDict, PyDict("a" :> PyNum(1)), PyDict("a" :> PyList(<<>>)),
     PyDict("a" :> PyList(<<PyNum(1), PyNum(2)>>)),
     PyNum(5), PyNum(0), PyStr("abc"), PyStr(""), PyNone,
     PyList(<<PyNum(5)>>), PyList(<<JohnA1, PyStr("total")>>)}

JsonValues == MemberArrays \cup OtherJson

LoadsTable == {<<Dumps(v), v>> : v \in JsonValues}

\* json.loads(text): surrounding whitespace is skipped
JsonLoads(text) ==
    LET hits == {e \in LoadsTable : e[1] = Strip(text)}
    IN  IF hits # {} THEN Ok((CHOOSE e \in hits : TRUE)[2])
        ELSE Raise(PyError("JSONDecodeError", "Expecting value"))

\* The code-fence marker, three backquotes.  A TLA+ string cannot hold a
\* backquote; the apostrophe stands for it.
Fence == "'''"

\* The answers wrapped in a code fence.
FencedJson == {PyList(<<>>), PyList(<<JohnA1>>), EmptyDict, PyNum(5)}

ExtractionAnswers ==
    {Text(Dumps(v)) : v \in JsonValues}
    \cup {Text(Fence \o "json " \o Dumps(v) \o " " \o Fence) : v \in FencedJson}
    \cup {Text(" " \o Fence \o " " \o Dumps(v) \o Fence) : v \in FencedJson}
    \cup {Text(t) : t \in {"", "Here is the data", "[{\"Wing\": ", Fence \o " json [] " \o Fence}}
    \cup {ServiceFault}

\* Lines 121 and 171: response.text.strip().replace(Fence + "json", "").replace(Fence, "")
StripFences(text) == Replace(Replace(Strip(text), Fence \o "json"), Fence)

(***************************************************************************)
(* The extraction round.                                                   *)
(***************************************************************************)
\* list[i] for a 0-based i
Index(list, i) ==
    IF i < Len(list) THEN Ok(list[i + 1])
    ELSE Raise(PyError("IndexError", "list index out of range"))

\* create_extraction_prompt, lines 43-70: the f-string evaluates
\* ', '.join(discovered_headers), discovered_headers[0] and discovered_headers[1].
CreateExtractionPrompt(headers) ==
    LET h0 == Index(headers, 0)
        h1 == Index(headers, 1)
    IN  IF ~h0.ok THEN h0
        ELSE IF ~h1.ok THEN h1
        ELSE Ok([categories |-> Join(headers, ", "), schema |-> <<h0.val, h1.val>>])

\* create_direct_export_prompt, lines 72-82: a fixed text.
CreateDirectExportPrompt == Ok([categories |-> "", schema |-> <<>>])

\* The try bodies of lines 119-122 and 169-172, from the prompt on: the call
\* is made when the prompt was built; its answer is cleaned and parsed.
ExtractionTryBody(prompt, answer) ==
    IF ~prompt.ok THEN prompt
    ELSE IF ~answer.ok THEN answer
    ELSE JsonLoads(StripFences(answer.val))

\* Mutant of ExtractionTryExcept: a failed extraction is downgraded to an
\* empty result and the handler goes on.
ExtractionSwallow(prompt, answer) ==
    LET r == ExtractionTryBody(prompt, answer)
    IN  IF r.ok THEN r ELSE Ok(PyList(<<>>))

\* try/except of lines 118-124 and 168-174.
ExtractionTryExcept(prompt, answer) ==
    LET r == ExtractionTryBody(prompt, answer)
    IN  IF r.ok THEN r
        ELSE Raise(HTTPException(500,
                "An error occurred during data extraction: " \o StrExc(r.exc)))

(***************************************************************************)
(* Flattening a member into a template row (lines 126-153).  A row is a    *)
(* function from column names to cells.                                    *)
(***************************************************************************)
\* row[key] = val
Put(row, key, val) ==
    [x \in DOMAIN row \cup {key} |-> IF x = key THEN val ELSE row[x]]

ExpenseCode(n) == "Expense Code " \o ToString(n)
ExpenseAmount(n) == "Expense Amount " \o ToString(n)

\* The columns of lines 131-138 that are always None.
NullColumns ==
    {"Bill Date", "Vendor Code", "Due Date",
     "CGST Tax Ledger Code", "CGST Amount", "SGST Tax Ledger Code", "SGST Amount",
     "IGST Tax Ledger Code", "IGST Amount", "TDS Code", "TDS Amount"}

\* Mutant of GetOrEmpty: the "or ''" dropped, so a null is kept.
GetOrEmptyNoOr(member, key) == Get(member, key, PyStr(""))

\* member.get(key, '') or ''
GetOrEmpty(member, key) ==
    LET v == Get(member, key, PyStr(""))
    IN  IF Truthy(v) THEN v ELSE PyStr("")

\* Line 130: f"{member.get('Wing', '') or ''}-{member.get('Unit No', '') or ''}".strip('-')
BillNumber(member) ==
    StripChar(Format(GetOrEmpty(member, "Wing")) \o "-"
              \o Format(GetOrEmpty(member, "Unit No")), "-")

\* Lines 129-139: the dict literal.
BaseRow(member) ==
    [c \in NullColumns \cup {"Bill Number", "Narration"} |->
        IF c = "Bill Number" THEN PyStr(BillNumber(member))
        ELSE IF c = "Narration" THEN Get(member, "Member Name", PyNone)
        ELSE PyNone]

RECURSIVE ExpenseLoop(_, _, _, _)
\* Lines 141-146, from the 0-based index i on: for i, header in enumerate(...)
ExpenseLoop(row, charges, headers, i) ==
    IF i >= Len(headers) THEN Ok(row)
    ELSE LET column_number == i + 1
             header == headers[i + 1]
         IN  IF column_number > MaxExpenseColumns THEN Ok(row)
             ELSE IF ~IsDict(charges)
                  THEN Raise(PyError("AttributeError", "object has no attribute 'get'"))
                  ELSE ExpenseLoop(
                          Put(Put(row, ExpenseCode(column_number), PyStr(header)),
                              ExpenseAmount(column_number), Get(charges, header, PyNone)),
                          charges, headers, i + 1)

RECURSIVE PadLoop(_, _)
\* Lines 149-152, from the 0-based index i on: for i in range(start_index, 10)
PadLoop(row, i) ==
    IF i >= MaxExpenseColumns THEN row
    ELSE PadLoop(Put(Put(row, ExpenseCode(i + 1), PyNone), ExpenseAmount(i + 1), PyNone),
                 i + 1)

\* Mutant of PadRow: the padding starts one column late.
PadRowOffByOne(row, headers) ==
    LET start_index == Len(headers) + 1
    IN  IF start_index < MaxExpenseColumns THEN PadLoop(row, start_index) ELSE row

\* Lines 147-152.
PadRow(row, headers) ==
    LET start_index == Len(headers)
    IN  IF start_index < MaxExpenseColumns THEN PadLoop(row, start_index) ELSE row

\* Lines 128-152: one turn of the loop over the members.
FlattenMember(member, headers) ==
    IF ~IsDict(member)
    THEN Raise(PyError("AttributeError", "object has no attribute 'get'"))
    ELSE LET charges == Get(member, "Charges", EmptyDict)
             filled == ExpenseLoop(BaseRow(member), charges, headers, 0)
         IN  IF ~filled.ok THEN filled ELSE Ok(PadRow(filled.val, headers))

\* iter(v): what "for member in v" goes through
Iterate(v) ==
    CASE v.k = "arr" -> Ok(v.a)
      [] v.k = "obj" ->
           LET keys == SetToSeq(DOMAIN v.o)
           IN  Ok([i \in 1..Len(keys) |-> PyStr(keys[i])])
      [] v.k = "str" -> Ok([i \in 1..Len(v.s) |-> PyStr(Char(v.s, i))])
      [] OTHER -> Raise(PyError("TypeError", "object is not iterable"))

RECURSIVE FlattenFrom(_, _, _, _)
FlattenFrom(members, headers, i, rows) ==
    IF i > Len(members) THEN Ok(rows)
    ELSE LET r == FlattenMember(members[i], headers)
         IN  IF ~r.ok THEN r
             ELSE FlattenFrom(members, headers, i + 1, Append(rows, r.val))

\* Lines 126-153: all_rows, or the exception that ends the loop.
FlattenAll(data, headers) ==
    LET members == Iterate(data)
    IN  IF ~members.ok THEN members ELSE FlattenFrom(members.val, headers, 1, <<>>)

(***************************************************************************)
(* pandas.DataFrame(data), line 179, by the number of rows of the table.   *)
(***************************************************************************)
IsScalar(v) == v.k \in {"null", "str", "num"}

DataFrame(data) ==
    CASE data.k = "arr" -> Ok([nrows |-> Len(data.a)])
      [] data.k = "obj" ->
           LET vals == {data.o[key] : key \in DOMAIN data.o}
               lens == {Len(v.a) : v \in {w \in vals : w.k = "arr"}}
           IN  IF \A v \in vals : IsScalar(v)
               THEN Raise(PyError("ValueError",
                                  "If using all scalar values, you must pass an index"))
               ELSE IF Cardinality(lens) > 1
               THEN Raise(PyError("ValueError", "All arrays must be of the same length"))
               ELSE Ok([nrows |-> CHOOSE n \in lens \cup {1} : lens # {} => n \in lens])
      [] OTHER -> Raise(PyError("ValueError", "DataFrame constructor not properly called!"))

(***************************************************************************)
(* The request.                                                            *)
(***************************************************************************)
Endpoints == {"process_document", "export_to_excel"}

Init ==
    /\ pc = "idle"
    /\ endpoint = "none"
    /\ file = [content_type |-> "", content |-> ""]
    /\ image_to_process = "none"
    /\ header_text = Unbound
    /\ discovered_headers = <<>>
    /\ json_text = Unbound
    /\ extracted_data = Unset
    /\ all_rows = <<>>
    /\ response = NoResponse
    /\ log = <<>>

\* A request arrives at one of the two POST routes (lines 104-105, 164-165).
Receive ==
    /\ pc = "idle"
    /\ \E ep \in Endpoints, f \in Uploads :
          /\ endpoint' = ep
          /\ file' = f
    /\ pc' = "get_image"
    /\ UNCHANGED <<image_to_process, header_text, discovered_headers, json_text,
                   extracted_data, all_rows, response, log>>

\* Lines 106 and 166: image_to_process = await get_image_from_upload(file).
\* An exception of the helper leaves the handler.
GetImageFromUpload ==
    /\ pc = "get_image"
    /\ LET r == GetImage(file)
       IN  /\ log' = log \o AcquireEvents(file)
           /\ IF r.ok
              THEN /\ image_to_process' = r.val
                   /\ pc' = IF endpoint = "process_document" THEN "discover"
                            ELSE "direct_extract"
                   /\ UNCHANGED response
              ELSE /\ response' = ErrorResponse(r.exc)
                   /\ pc' = "done"
                   /\ UNCHANGED image_to_process
    /\ UNCHANGED <<endpoint, file, header_text, discovered_headers, json_text,
                   extracted_data, all_rows>>

\* Lines 108-116: the discovery round of process_document.
DiscoverHeaders ==
    /\ pc = "discover"
    /\ \E answer \in DiscoveryAnswers :
          LET r == DiscoveryTryExcept(answer)
          IN  /\ log' = Append(log, "discovery_call")
              /\ header_text' = IF answer.ok THEN Strip(answer.val) ELSE header_text
              /\ IF r.ok
                 THEN /\ discovered_headers' = r.val
                      /\ pc' = "extract"
                      /\ UNCHANGED response
                 ELSE /\ discovered_headers' =
                            IF answer.ok THEN ParseHeaders(Strip(answer.val))
                            ELSE discovered_headers
                      /\ response' = ErrorResponse(r.exc)
                      /\ pc' = "done"
    /\ UNCHANGED <<endpoint, file, image_to_process, json_text, extracted_data,
                   all_rows>>

\* Lines 118-124: the extraction round of process_document.
ExtractData ==
    /\ pc = "extract"
    /\ \E answer \in ExtractionAnswers :
          LET prompt == CreateExtractionPrompt(discovered_headers)
              r == ExtractionTryExcept(prompt, answer)
          IN  /\ log' = IF prompt.ok THEN Append(log, "extraction_call") ELSE log
              /\ json_text' = IF prompt.ok /\ answer.ok THEN StripFences(answer.val)
                              ELSE json_text
              /\ IF r.ok
                 THEN /\ extracted_data' = r.val
                      /\ pc' = "flatten"
                      /\ UNCHANGED response
                 ELSE /\ response' = ErrorResponse(r.exc)
                      /\ pc' = "done"
                      /\ UNCHANGED extracted_data
    /\ UNCHANGED <<endpoint, file, image_to_process, header_text,
                   discovered_headers, all_rows>>

\* Lines 126-153: the loop over the members.  An exception in it leaves the
\* handler: nothing around the loop catches it.
FlattenRows ==
    /\ pc = "flatten"
    /\ LET r == FlattenAll(extracted_data, discovered_headers)
       IN  /\ log' = Append(log, "flatten")
           /\ IF r.ok
              THEN /\ all_rows' = r.val
                   /\ pc' = "to_csv"
                   /\ UNCHANGED response
              ELSE /\ response' = ErrorResponse(r.exc)
                   /\ pc' = "done"
                   /\ UNCHANGED all_rows
    /\ UNCHANGED <<endpoint, file, image_to_process, header_text,
                   discovered_headers, json_text, extracted_data>>

\* Lines 155-160: no row is a 400; otherwise the rows are written as CSV,
\* one data row per flattened row.
ToCsv ==
    /\ pc = "to_csv"
    /\ IF all_rows = <<>>
       THEN /\ response' = ErrorResponse(HTTPException(400, "No data could be processed."))
            /\ UNCHANGED log
       ELSE /\ response' = StreamingResponse("text/csv", Len(all_rows))
            /\ log' = Append(log, "serialize")
    /\ pc' = "done"
    /\ UNCHANGED <<endpoint, file, image_to_process, header_text,
                   discovered_headers, json_text, extracted_data, all_rows>>

\* Lines 168-174: the single round of export_to_excel.
DirectExtract ==
    /\ pc = "direct_extract"
    /\ \E answer \in ExtractionAnswers :
          LET prompt == CreateDirectExportPrompt
              r == ExtractionTryExcept(prompt, answer)
          IN  /\ log' = Append(log, "extraction_call")
              /\ json_text' = IF answer.ok THEN StripFences(answer.val) ELSE json_text
              /\ IF r.ok
                 THEN /\ extracted_data' = r.val
                      /\ pc' = "to_excel"
                      /\ UNCHANGED response
                 ELSE /\ response' = ErrorResponse(r.exc)
                      /\ pc' = "done"
                      /\ UNCHANGED extracted_data
    /\ UNCHANGED <<endpoint, file, image_to_process, header_text,
                   discovered_headers, all_rows>>

\* Lines 176-185: falsy data is a 400; otherwise the data becomes a table
\* and the table a spreadsheet.  An exception of the table's construction
\* leaves the handler.
ToExcel ==
    /\ pc = "to_excel"
    /\ IF ~Truthy(extracted_data)
       THEN /\ response' = ErrorResponse(HTTPException(400,
                               "No data could be extracted for Excel export."))
            /\ UNCHANGED log
       ELSE LET df == DataFrame(extracted_data)
            IN  /\ log' = Append(log, "serialize")
                /\ response' =
                      IF df.ok
                      THEN StreamingResponse("application/vnd.openxmlformats-officedocument.spreadsheetml.sheet",
                                             df.val.nrows)
                      ELSE ErrorResponse(df.exc)
    /\ pc' = "done"
    /\ UNCHANGED <<endpoint, file, image_to_process, header_text,
                   discovered_headers, json_text, extracted_data, all_rows>>

Next ==
    \/ Receive
    \/ GetImageFromUpload
    \/ DiscoverHeaders
    \/ ExtractData
    \/ FlattenRows
    \/ ToCsv
    \/ DirectExtract
    \/ ToExcel

Spec == Init /\ [][Next]_vars

(***************************************************************************)
(* Properties.                                                             *)
(***************************************************************************)
Done == pc = "done"
Template == endpoint = "process_document"
Direct == endpoint = "export_to_excel"

Called(ev) == \E i \in DOMAIN log : log[i] = ev
Count(ev) == Cardinality({i \in DOMAIN log : log[i] = ev})

ExtractionDetail == "An error occurred during data extraction: "
StartsWith(s, prefix) == Len(s) >= Len(prefix) /\ SubSeq(s, 1, Len(prefix)) = prefix

\* The extraction stage has an answer: json_text holds its cleaned text.
Answered == json_text # Unbound

\* The text after code-fence removal is malformed JSON, or JSON whose top
\* level is no array.
NotAnArray(text) == ~JsonLoads(text).ok \/ JsonLoads(text).val.k # "arr"

\* The charge of a member for a header, null when the member has no Charges
\* or Charges has no such header.
ChargeOf(member, header) ==
    IF "Charges" \in DOMAIN member.o /\ header \in DOMAIN member.o["Charges"].o
    THEN member.o["Charges"].o[header] ELSE PyNone

ExpenseColumns(n) ==
    {"Expense Code " \o ToString(i) : i \in 1..n} \cup {"Expense Amount " \o ToString(i) : i \in 1..n}

\* C1: in the template flow every flattened row has exactly the ten pairs
\* Expense Code N / Expense Amount N, N = 1..10, and none past 10; for N up to
\* min(h, 10) the code is the N-th discovered header and the amount is the
\* member's charge for it (null when Charges lacks it); for h < N <= 10 both
\* are null; headers past the tenth are dropped.
C1_TenExpensePairs ==
    all_rows # <<>> =>
      /\ extracted_data.k = "arr"
      /\ Len(all_rows) = Len(extracted_data.a)
      /\ Len(discovered_headers) >= 1
      /\ \A r \in DOMAIN all_rows :
           LET row == all_rows[r]
               member == extracted_data.a[r]
               h == Len(discovered_headers)
           IN  /\ {c \in DOMAIN row : StartsWith(c, "Expense ")} = ExpenseColumns(10)
               /\ \A n \in 1..10 :
                    LET code == row["Expense Code " \o ToString(n)]
                        amount == row["Expense Amount " \o ToString(n)]
                    IN  IF n <= h
                        THEN /\ code = PyStr(discovered_headers[n])
                             /\ amount = ChargeOf(member, discovered_headers[n])
                        ELSE code = PyNone /\ amount = PyNone

\* A row flattened under more than ten headers, with an amount and a null
\* among its expense cells.
C1_Witness ==
    /\ Len(discovered_headers) > 10
    /\ all_rows # <<>>
    /\ all_rows[1]["Expense Amount 1"] = PyNone
    /\ all_rows[1]["Expense Amount 2"] = PyNum(7)
    /\ response.status = 200

\* C2: a template request whose discovery yields one header, or any non-empty
\* header list, builds the extraction prompt, makes the extraction call and
\* succeeds with one row per member; with the header Tax and the one member
\* (A, 1, John, Tax: 100) the answer is one row A-1 / John / Tax / 100 with
\* the expense pairs 2..10 null.
C2_SingleHeaderExtracts ==
    (Template /\ Done /\ Len(discovered_headers) >= 1) =>
      /\ Called("extraction_call")
      /\ (Answered /\ JsonLoads(json_text) = Ok(PyList(<<JohnA1>>))
            /\ discovered_headers = <<"Tax">>) =>
           /\ response.status = 200
           /\ response.stream.nrows = 1
           /\ all_rows[1]["Bill Number"] = PyStr("A-1")
           /\ all_rows[1]["Narration"] = PyStr("John")
           /\ all_rows[1]["Expense Code 1"] = PyStr("Tax")
           /\ all_rows[1]["Expense Amount 1"] = PyStr("100")

\* C3: in the template flow a discovery answer that yields no header label
\* ends the request with status 400.
C3_NoHeadersIs400 ==
    (Template /\ Done /\ header_text # Unbound /\ ParseHeaders(header_text) = <<>>) =>
      response.status = 400

\* C4: a PDF upload whose decoding returns no page fails with status 400; a
\* PDF fails with 500 at image acquisition only when the decoder raises.
C4_EmptyPdfIs400 ==
    (Done /\ file.content_type = "application/pdf" /\ image_to_process = "none") =>
      /\ ConvertFromBytes(file.content) = Ok(<<>>) => response.status = 400
      /\ response.status = 500 => ~ConvertFromBytes(file.content).ok

\* C5: in both flows an extraction answer that, after code-fence removal, is
\* malformed JSON or JSON whose top level is no array ends the request with
\* status 500 and the extraction detail: never a stream, never the 400.
C5_NonArrayIsExtractionError ==
    (Done /\ Answered /\ NotAnArray(json_text)) =>
      /\ response.status = 500
      /\ StartsWith(response.detail, ExtractionDetail)
      /\ response.stream = NoStream

\* C6: an extraction answer that parses to the empty array ends both flows
\* with status 400 and no stream; a successful response stream holds at least
\* one data row.
C6_EmptyMeansNoData ==
    Done =>
      /\ extracted_data = PyList(<<>>) =>
           response.status = 400 /\ response.stream = NoStream
      /\ response.status = 200 => response.stream.nrows >= 1

\* The text of a member's field: empty when the field is absent or null.
FieldText(member, key) ==
    IF key \in DOMAIN member.o /\ member.o[key] # PyNone THEN member.o[key].s ELSE ""

\* t is s without its leading and trailing hyphens.
HyphensStripped(s, t) ==
    /\ \E i \in 1..(Len(s) + 1) :
         /\ i + Len(t) - 1 <= Len(s)
         /\ t = SubSeq(s, i, i + Len(t) - 1)
         /\ \A j \in 1..Len(s) : (j < i \/ j >= i + Len(t)) => SubSeq(s, j, j) = "-"
    /\ t # "" => SubSeq(t, 1, 1) # "-" /\ SubSeq(t, Len(t), Len(t)) # "-"

\* C7: the Bill Number of every flattened member is a string, never null:
\* Wing and Unit No, each empty when absent or null, joined by one hyphen,
\* leading and trailing hyphens stripped: (B, 205) is B-205, (null, 205) is
\* 205, (B, null) is B, (null, null) is the empty string.
C7_BillNumber ==
    \A r \in DOMAIN all_rows :
      LET member == extracted_data.a[r]
          wing == FieldText(member, "Wing")
          unit == FieldText(member, "Unit No")
          bill == all_rows[r]["Bill Number"]
      IN  /\ bill.k = "str"
          /\ HyphensStripped(wing \o "-" \o unit, bill.s)
          /\ (wing = "B" /\ unit = "205") => bill.s = "B-205"
          /\ (wing = "" /\ unit = "205") => bill.s = "205"
          /\ (wing = "B" /\ unit = "") => bill.s = "B"
          /\ (wing = "" /\ unit = "") => bill.s = ""

\* A row of a member whose Wing is null and whose Unit No is 205.
C7_Witness ==
    /\ all_rows # <<>>
    /\ "Wing" \in DOMAIN extracted_data.a[1].o
    /\ extracted_data.a[1].o["Wing"] = PyNone
    /\ all_rows[1]["Bill Number"] = PyStr("205")

\* C8: on both endpoints an upload whose content type is not image/jpeg,
\* image/png or application/pdf is rejected with status 400 before the bytes
\* are read or decoded and before any service call: the request has no such
\* event.
C8_UnsupportedTypeRejectedFirst ==
    (pc # "idle" /\ file.content_type \notin {"image/jpeg", "image/png", "application/pdf"}) =>
      /\ log = <<>>
      /\ image_to_process = "none"
      /\ pc \in {"get_image", "done"}
      /\ Done => response.status = 400 /\ response.detail = "Unsupported file type."

\* A text/plain upload that was answered.
C8_Witness ==
    /\ Done
    /\ file.content_type = "text/plain"
    /\ file.content = "raster"
    /\ response.status = 400

\* The place of an event in the order of the stages.
Rank(ev) ==
    CASE ev = "read" -> 1
      [] ev = "decode_pdf" -> 2
      [] ev = "decode_image" -> 2
      [] ev = "discovery_call" -> 3
      [] ev = "extraction_call" -> 4
      [] ev = "flatten" -> 5
      [] OTHER -> 6

\* C9: within a template request the stages run in the order acquire image,
\* discovery call, extraction call, flatten, serialize; each service call is
\* made at most once; after a failed stage no later stage runs; with zero
\* headers no extraction call is made; flattening starts only after the
\* extraction answer has parsed.  The direct flow makes one service call, the
\* extraction call, and no discovery call.
C9_StagesInOrder ==
    /\ \A i, j \in DOMAIN log : i < j => Rank(log[i]) < Rank(log[j])
    /\ Called("discovery_call") => Template /\ image_to_process # "none"
    /\ Called("extraction_call") => image_to_process # "none"
    /\ (Template /\ Called("extraction_call")) =>
          Called("discovery_call") /\ discovered_headers # <<>>
    /\ (Template /\ Called("discovery_call") /\ discovered_headers = <<>>) =>
          Done /\ ~Called("extraction_call")
    /\ Called("flatten") =>
          /\ Template /\ Called("extraction_call")
          /\ Answered /\ JsonLoads(json_text) = Ok(extracted_data)
    /\ (Template /\ Called("serialize")) => Called("flatten")
    /\ Called("serialize") => Called("extraction_call") /\ extracted_data # Unset
    /\ response # NoResponse => Done
    /\ response.status >= 400 => ~Called("serialize") \/ response.escaped
    /\ Direct => ~Called("discovery_call") /\ ~Called("flatten")
    /\ (Direct /\ Done /\ image_to_process # "none") => Count("extraction_call") = 1

\* A template request that went through every stage.
C9_Witness ==
    /\ Template
    /\ Done
    /\ response.status = 200
    /\ log = <<"read", "decode_pdf", "discovery_call", "extraction_call", "flatten",
               "serialize">>

\* C10: every fault of a request stage is caught at the stage's boundary and
\* answered as an HTTP error with the stage's detail message; no fault leaves
\* a stage as an unhandled exception.
C10_NoFaultEscapes ==
    /\ ~response.escaped
    /\ response.status >= 400 => response.detail # "Internal Server Error"

====
